---- MODULE Spec2Model ----
(***************************************************************************)
(* VnrToYagtFormat (src/index.js, lines 145-204): the conversion of a VNR   *)
(* shared-dictionary term list into the Yagt term list.                    *)
(*                                                                         *)
(* JavaScript values are modelled as follows.                              *)
(*   - An object is a function from the names of its own properties to     *)
(*     their values; a property the object lacks is outside the DOMAIN.    *)
(*   - A pattern (and so a key of tempFormat.terms) is a sequence of       *)
(*     one-character strings, so that its length and its characters can be *)
(*     inspected.  Every other string is a TLA+ string.                    *)
(*   - tempFormat.terms, an object iterated in insertion order, is a       *)
(*     sequence of [key, value] entries in the order the keys were created.*)
(*   - The value undefined is the string "undefined"; no input of the      *)
(*     model carries that literal string.                                  *)
(* The order of the properties inside one term object is not modelled.     *)
(* No pattern of the model names a property of Object.prototype, and no    *)
(* language of the model names one of the mapper's own fields.             *)
(***************************************************************************)
EXTENDS Integers, Sequences, FiniteSets, TLC

VARIABLES vnrFormat, i, tempFormat, yagtFormat, pc

vars == <<vnrFormat, i, tempFormat, yagtFormat, pc>>

\* Longest input array explored.
MaxTerms == 3

-----------------------------------------------------------------------------
(* JavaScript object primitives *)

Undefined == "undefined"

Has(o, f) == f \in DOMAIN o

Get(o, f) == IF f \in DOMAIN o THEN o[f] ELSE Undefined

Put(o, f, v) == [x \in (DOMAIN o) \cup {f} |-> IF x = f THEN v ELSE o[x]]

Delete(o, f) == [x \in (DOMAIN o) \ {f} |-> o[x]]

\* ToBoolean of a string-valued property: missing and "" are falsy.
Truthy(o, f) == Has(o, f) /\ o[f] # ""

\* ToBoolean of the pattern property: missing and the empty pattern are falsy.
TruthyPattern(o) == Has(o, "pattern") /\ o["pattern"] # <<>>

\* `!x === "s"`: the left operand is a Boolean, the right one a String; strict
\* equality of operands of different types is false whatever their values.
NotThenStrictEquals(truthy, s) == FALSE

-----------------------------------------------------------------------------
(* isNaN(pattern): Number(pattern) trims white space, reads the empty string *)
(* as 0 and any string of decimal digits as a number.  The characters of the *)
(* model's patterns are letters a-d, digits, the space and "/", so no sign,  *)
(* dot, exponent, radix prefix or "Infinity" can occur.                      *)

Digits == {"0", "1", "2", "3", "4", "5", "6", "7", "8", "9"}

WhiteSpace == {" "}

RECURSIVE TrimStart(_)
TrimStart(s) ==
  IF s # <<>> /\ Head(s) \in WhiteSpace THEN TrimStart(Tail(s)) ELSE s

RECURSIVE TrimEnd(_)
TrimEnd(s) ==
  IF s # <<>> /\ s[Len(s)] \in WhiteSpace
  THEN TrimEnd(SubSeq(s, 1, Len(s) - 1))
  ELSE s

isNaN(s) ==
  LET t == TrimEnd(TrimStart(s))
  IN  ~(\A n \in 1..Len(t) : t[n] \in Digits)

-----------------------------------------------------------------------------
(* tempFormat.terms: an object whose keys keep their insertion order *)

TermsHas(terms, k) == \E n \in 1..Len(terms) : terms[n].key = k

TermsGet(terms, k) ==
  terms[CHOOSE n \in 1..Len(terms) : terms[n].key = k].value

TermsSet(terms, k, v) ==
  IF TermsHas(terms, k)
  THEN [n \in 1..Len(terms) |->
          IF terms[n].key = k THEN [key |-> k, value |-> v] ELSE terms[n]]
  ELSE Append(terms, [key |-> k, value |-> v])

-----------------------------------------------------------------------------
(* The body of the loop over vnrFormat *)

\* Line 152 reads vnrFormat[i].$.type; the disjunct before it is always false,
\* so it is read for every record, and a record without attributes raises a
\* TypeError.
Throws(t) == ~Has(t, "$")

\* The filter without its last operand, the length check of line 156.
IgnoredWithoutLengthCheck(t) ==
  IF NotThenStrictEquals(Truthy(t, "sourceLanguage"), "ja") THEN TRUE
  ELSE IF NotThenStrictEquals(Truthy(t["$"], "type"), "trans") THEN TRUE
  ELSE IF ~Truthy(t, "text") THEN TRUE
  ELSE IF ~TruthyPattern(t) THEN TRUE
  ELSE ~isNaN(t["pattern"])

\* Lines 150-158, for a record that has attributes: the operands of || are
\* evaluated left to right and the first true one ends the evaluation.
Ignored(t) ==
  IF NotThenStrictEquals(Truthy(t, "sourceLanguage"), "ja") THEN TRUE
  ELSE IF NotThenStrictEquals(Truthy(t["$"], "type"), "trans") THEN TRUE
  ELSE IF ~Truthy(t, "text") THEN TRUE
  ELSE IF ~TruthyPattern(t) THEN TRUE
  ELSE IF ~isNaN(t["pattern"]) THEN TRUE
  ELSE ~(Len(t["pattern"]) > 1)

\* Line 159: the key under which an existing term is looked up.
LookupKey(t) == t["pattern"]

\* Lines 190-194: the key under which a new term is stored.
InsertKey(t) ==
  IF Get(t, "regex") = "true"
  THEN <<"/">> \o t["pattern"] \o <<"/">>
  ELSE t["pattern"]

includes(seq, v) == \E n \in 1..Len(seq) : seq[n] = v

\* Lines 162-179: the incoming record merged into existedTerm.
MergeTerm(existedTerm, t) ==
  LET sl == Get(t, "sourceLanguage")
      e1 ==
        IF Get(existedTerm, "sourceLanguage") = sl
        THEN existedTerm
        ELSE IF Has(existedTerm, "multipleSourceLanguages")
        THEN IF ~includes(existedTerm["sourceLanguages"], sl)
             THEN Put(existedTerm, "sourceLanguages",
                      Append(existedTerm["sourceLanguages"], sl))
             ELSE existedTerm
        ELSE Delete(
               Put(Put(existedTerm, "multipleSourceLanguages", TRUE),
                   "sourceLanguages",
                   <<Get(existedTerm, "sourceLanguage"), sl>>),
               "sourceLanguage")
  IN  Put(e1, Get(t, "language"), t["text"])

\* Lines 183-188: the term created from the incoming record.
OneTerm(t) ==
  LET o1 == Put(<<>>, "sourceLanguage", Get(t, "sourceLanguage"))
      o2 == Put(o1, Get(t, "language"), t["text"])
  IN  IF Truthy(t, "comment") THEN Put(o2, "comment", t["comment"]) ELSE o2

\* One iteration of the loop of lines 149-195 on a record that has attributes.
LoopBody(terms, t) ==
  IF Ignored(t) THEN terms
  ELSE IF TermsHas(terms, LookupKey(t))
  THEN TermsSet(terms, LookupKey(t), MergeTerm(TermsGet(terms, LookupKey(t)), t))
  ELSE TermsSet(terms, InsertKey(t), OneTerm(t))

\* Lines 198-201: { pattern: key, ...term }; the spread is applied after pattern.
OutputTerm(entry) == entry.value @@ ("pattern" :> entry.key)

\* Lines 198-201: one Output Term per key, in the insertion order of the keys.
Flattened(terms) == [n \in 1..Len(terms) |-> OutputTerm(terms[n])]

-----------------------------------------------------------------------------
(* Actions *)

InLoop == pc = "loop" /\ i <= Len(vnrFormat)

Throw ==
  /\ InLoop
  /\ Throws(vnrFormat[i])
  /\ pc' = "thrown"
  /\ UNCHANGED <<vnrFormat, i, tempFormat, yagtFormat>>

Skip ==
  /\ InLoop
  /\ ~Throws(vnrFormat[i])
  /\ Ignored(vnrFormat[i])
  /\ i' = i + 1
  /\ UNCHANGED <<vnrFormat, tempFormat, yagtFormat, pc>>

Merge ==
  /\ InLoop
  /\ ~Throws(vnrFormat[i])
  /\ ~Ignored(vnrFormat[i])
  /\ TermsHas(tempFormat.terms, LookupKey(vnrFormat[i]))
  /\ tempFormat' = [terms |-> LoopBody(tempFormat.terms, vnrFormat[i])]
  /\ i' = i + 1
  /\ UNCHANGED <<vnrFormat, yagtFormat, pc>>

Create ==
  /\ InLoop
  /\ ~Throws(vnrFormat[i])
  /\ ~Ignored(vnrFormat[i])
  /\ ~TermsHas(tempFormat.terms, LookupKey(vnrFormat[i]))
  /\ tempFormat' = [terms |-> LoopBody(tempFormat.terms, vnrFormat[i])]
  /\ i' = i + 1
  /\ UNCHANGED <<vnrFormat, yagtFormat, pc>>

Flatten ==
  /\ pc = "loop"
  /\ i > Len(vnrFormat)
  /\ yagtFormat' = [terms |-> Flattened(tempFormat.terms)]
  /\ pc' = "done"
  /\ UNCHANGED <<vnrFormat, i, tempFormat>>

Next == Throw \/ Skip \/ Merge \/ Create \/ Flatten

-----------------------------------------------------------------------------
(* Inputs *)

SeqsUpTo(S, n) == UNION {[1..m -> S] : m \in 0..n}

\* A well-formed translation term.
Base ==
  [sourceLanguage |-> "ja", language |-> "en", text |-> "hi",
   pattern |-> <<"a", "b">>] @@ ("$" :> [type |-> "trans"])

InitOver(D) ==
  /\ vnrFormat \in SeqsUpTo(D, MaxTerms)
  /\ i = 1
  /\ tempFormat = [terms |-> <<>>]
  /\ yagtFormat = [terms |-> <<>>]
  /\ pc = "loop"

\* Records that differ in pattern, regex flag, language and text.
KeyTerms ==
  { Put(Put(Put(IF rx THEN Put(Base, "regex", "true") ELSE Base,
                "pattern", p), "language", lt[1]), "text", lt[2]) :
      p \in {<<"a", "b">>, <<"/", "a", "b", "/">>, <<"c", "d">>},
      rx \in BOOLEAN,
      lt \in {<<"en", "hi">>, <<"en", "yo">>, <<"zh", "yo">>} }
  \cup {Delete(Base, "$"), Put(Base, "text", "")}

InitKeys == InitOver(KeyTerms)

SpecKeys == InitKeys /\ [][Next]_vars

\* Records that differ in source language and in comment, under a plain key,
\* the regex key of the same pattern text, and the plain key spelled like it.
SrcTerms ==
  { Put(IF rx THEN Put(sl, "regex", "true") ELSE sl, "pattern", p) :
      sl \in {Put(Base, "sourceLanguage", l) : l \in {"ja", "en", "zh"}},
      rx \in BOOLEAN,
      p \in {<<"a", "b">>, <<"/", "a", "b", "/">>} }
  \cup { Put(IF rx THEN Put(Base, "regex", "true") ELSE Base, "comment", c) :
           rx \in BOOLEAN, c \in {"c1", "c2"} }
  \cup {Delete(Base, "$"), Put(Base, "text", "")}

InitSrc == InitOver(SrcTerms)

SpecSrc == InitSrc /\ [][Next]_vars

\* Records that differ in source language and in type, and records that lack
\* one field.
FilterTerms ==
  { Put(Put(Put(ty, "pattern", plt[1]), "language", plt[2]), "text", plt[3]) :
      ty \in { IF a = "none" THEN Delete(sl, "$") ELSE Put(sl, "$", [type |-> a]) :
                 sl \in {Base, Put(Base, "sourceLanguage", "en"),
                         Delete(Base, "sourceLanguage")},
                 a \in {"trans", "name", "none"} },
      plt \in {<<<<"a", "b">>, "en", "hi">>, <<<<"a", "b">>, "zh", "yo">>} }
  \cup {Put(Base, "text", ""), Delete(Base, "text"), Delete(Base, "pattern"),
        Put(Base, "pattern", <<>>), Delete(Base, "language"),
        Put(Base, "$", <<>>)}

InitFilter == InitOver(FilterTerms)

SpecFilter == InitFilter /\ [][Next]_vars

\* Records that differ in pattern: empty, one character, digits only, digits
\* and white space, and patterns that pass the filter.
PatternTerms ==
  { Put(IF rx THEN Put(Base, "regex", "true") ELSE Base, "pattern", p) :
      rx \in BOOLEAN,
      p \in {<<>>, <<"a">>, <<"4">>, <<"4", "2">>, <<"4", " ">>, <<"a", "b">>,
             <<"a", "4">>} }
  \cup { Put(Put(Put(Base, "pattern", p), "language", "zh"), "text", "yo") :
           p \in {<<"4", "2">>, <<"a">>, <<"a", "b">>} }
  \cup {Delete(Base, "$"), Delete(Base, "pattern")}

InitPattern == InitOver(PatternTerms)

SpecPattern == InitPattern /\ [][Next]_vars

-----------------------------------------------------------------------------
(* The loop of lines 149-195 run over a whole sequence of records that all  *)
(* have attributes.                                                         *)

RECURSIVE LoopOver(_)
LoopOver(s) ==
  IF s = <<>> THEN <<>>
  ELSE LoopBody(LoopOver(SubSeq(s, 1, Len(s) - 1)), s[Len(s)])

-----------------------------------------------------------------------------
(* Vocabulary of the specification, used to state the properties *)

\* The records the loop has consumed so far.
Processed == SubSeq(vnrFormat, 1, i - 1)

\* The effective pattern key: /pattern/ when regex is "true", else the pattern.
EffectiveKey(t) ==
  IF Get(t, "regex") = "true"
  THEN <<"/">> \o t["pattern"] \o <<"/">>
  ELSE t["pattern"]

PurelyNumeric(p) == p # <<>> /\ \A n \in 1..Len(p) : p[n] \in Digits

\* The text and pattern conditions of eligibility.
WellShaped(t) ==
  /\ Has(t, "$")
  /\ Truthy(t, "text")
  /\ TruthyPattern(t)
  /\ ~PurelyNumeric(t["pattern"])
  /\ Len(t["pattern"]) > 1

\* Eligibility as the specification defines it.
Eligible(t) ==
  /\ WellShaped(t)
  /\ Get(t, "sourceLanguage") = "ja"
  /\ Get(t["$"], "type") = "trans"

EligibleIdx == {j \in 1..Len(vnrFormat) : Eligible(vnrFormat[j])}

\* The indices of the eligible records whose effective key is k.
IdxOfKey(k) == {j \in EligibleIdx : EffectiveKey(vnrFormat[j]) = k}

Max(S) == CHOOSE x \in S : \A y \in S : y <= x

Min(S) == CHOOSE x \in S : \A y \in S : x <= y

\* The language fields of an Output Term.
LanguageFields(o) ==
  DOMAIN o \ {"pattern", "sourceLanguage", "sourceLanguages",
              "multipleSourceLanguages", "comment"}

OutputFor(k) ==
  yagtFormat.terms[CHOOSE n \in 1..Len(yagtFormat.terms) :
                     yagtFormat.terms[n]["pattern"] = k]

HasOutputFor(k) ==
  \E n \in 1..Len(yagtFormat.terms) : yagtFormat.terms[n]["pattern"] = k

\* The languages carried by the eligible records of key k, and the last text
\* written for each.
LanguagesOfKey(k) == {Get(vnrFormat[j], "language") : j \in IdxOfKey(k)}

LastTextOf(k, l) ==
  vnrFormat[Max({j \in IdxOfKey(k) : Get(vnrFormat[j], "language") = l})]["text"]

\* The distinct effective keys of the eligible records of s, in the order of
\* their first appearance.
RECURSIVE FirstSeenKeys(_)
FirstSeenKeys(s) ==
  IF s = <<>> THEN <<>>
  ELSE LET r == FirstSeenKeys(SubSeq(s, 1, Len(s) - 1))
           t == s[Len(s)]
       IN  IF Eligible(t) /\ ~includes(r, EffectiveKey(t))
           THEN Append(r, EffectiveKey(t))
           ELSE r

-----------------------------------------------------------------------------
(* Properties *)

\* C1: when the conversion is done, every effective key of an eligible record
\* has an Output Term whose language fields are exactly the languages of the
\* eligible records of that key, each holding the text of the last of them.
C1_LastWritePerLanguage ==
  pc = "done" =>
    \A k \in {EffectiveKey(vnrFormat[j]) : j \in EligibleIdx} :
      /\ HasOutputFor(k)
      /\ LanguageFields(OutputFor(k)) = LanguagesOfKey(k)
      /\ \A l \in LanguagesOfKey(k) : OutputFor(k)[l] = LastTextOf(k, l)

\* C2: when the conversion is done and the input holds an eligible regex
\* record and an eligible plain record of the same pattern text p, the output
\* has an Output Term for p and one for /p/, each with the language fields of
\* the records of its own key only.
C2_RegexAndPlainApart ==
  pc = "done" =>
    \A j1, j2 \in EligibleIdx :
      ( /\ vnrFormat[j1]["pattern"] = vnrFormat[j2]["pattern"]
        /\ Get(vnrFormat[j1], "regex") = "true"
        /\ Get(vnrFormat[j2], "regex") # "true" )
      => \A k \in {EffectiveKey(vnrFormat[j1]), EffectiveKey(vnrFormat[j2])} :
           /\ HasOutputFor(k)
           /\ LanguageFields(OutputFor(k)) = LanguagesOfKey(k)

\* C5: when the conversion is done, the patterns of the Output Terms are the
\* distinct effective keys of the eligible records, each once, in the order of
\* their first appearance in the input.
C5_OneTermPerKeyInOrder ==
  pc = "done" =>
    [n \in 1..Len(yagtFormat.terms) |-> yagtFormat.terms[n]["pattern"]]
      = FirstSeenKeys(vnrFormat)

\* The records a filter is to drop.
NonJa(t) == Has(t, "sourceLanguage") /\ t["sourceLanguage"] # "ja"

NonTrans(t) == Get(t["$"], "type") # "trans"

NumericOrShort(t) ==
  Has(t, "pattern") /\ (PurelyNumeric(t["pattern"]) \/ Len(t["pattern"]) <= 1)

\* A record that lacks a required field.
Malformed(t) ==
  \/ ~Has(t, "$")
  \/ \E f \in {"sourceLanguage", "language", "text", "pattern"} : ~Has(t, f)
  \/ ~Has(t["$"], "type")

\* The state of the conversion is the one reached on the records of `kept`:
\* the records left out of `kept` have created no key and changed no field.
ConvertedAsIf(kept) ==
  /\ tempFormat.terms = LoopOver(kept)
  /\ pc = "done" => yagtFormat.terms = Flattened(LoopOver(kept))

\* C3: at every point of the conversion the terms built are those built from
\* the consumed records whose sourceLanguage is "ja": a record of another
\* source language creates no Output Term and contributes no field.
C3_OtherSourceLanguageDropped ==
  ConvertedAsIf(SelectSeq(Processed, LAMBDA t : ~NonJa(t)))

\* C4: at every point of the conversion the terms built are those built from
\* the consumed records whose type is "trans": a record of another type
\* creates no Output Term and contributes no field.
C4_OtherTypeDropped ==
  ConvertedAsIf(SelectSeq(Processed, LAMBDA t : ~NonTrans(t)))

\* C7: at every point of the conversion the terms built are those built from
\* the consumed records whose pattern is neither purely numeric nor of length
\* at most 1: such a record, regex or not, creates no key and contributes no
\* field; every key is the effective key of a record with another pattern and
\* every language field holds the text of such a record.
C7_NumericOrShortPatternDropped ==
  /\ ConvertedAsIf(SelectSeq(Processed, LAMBDA t : ~NumericOrShort(t)))
  /\ \A m \in 1..Len(tempFormat.terms) :
       LET kept == {j \in 1..(i - 1) :
                     /\ Has(vnrFormat[j], "pattern")
                     /\ ~NumericOrShort(vnrFormat[j])
                     /\ EffectiveKey(vnrFormat[j]) = tempFormat.terms[m].key}
       IN  /\ kept # {}
           /\ \A l \in LanguageFields(tempFormat.terms[m].value) :
                \E j \in 1..(i - 1) :
                  /\ Has(vnrFormat[j], "pattern")
                  /\ ~NumericOrShort(vnrFormat[j])
                  /\ Get(vnrFormat[j], "language") = l
                  /\ Get(vnrFormat[j], "text") = tempFormat.terms[m].value[l]

\* The input holds a purely numeric regex pattern, a one-character pattern and
\* a pattern that passes, and the conversion has produced its output.
C7_Witness ==
  /\ pc = "done"
  /\ Len(yagtFormat.terms) > 0
  /\ \E j \in 1..Len(vnrFormat) :
       /\ Has(vnrFormat[j], "pattern")
       /\ PurelyNumeric(vnrFormat[j]["pattern"])
       /\ Len(vnrFormat[j]["pattern"]) > 1
       /\ Get(vnrFormat[j], "regex") = "true"
  /\ \E j \in 1..Len(vnrFormat) :
       Has(vnrFormat[j], "pattern") /\ Len(vnrFormat[j]["pattern"]) = 1

\* C8: the conversion never raises, and at every point the terms built are
\* those built from the consumed records that lack no required field.
C8_NoRaiseOnMalformedRecord ==
  /\ pc # "thrown"
  /\ ConvertedAsIf(SelectSeq(Processed, LAMBDA t : ~Malformed(t)))

\* The well-shaped records among the first n whose effective key is k.
ContributorsOf(k, n) ==
  {j \in 1..n : WellShaped(vnrFormat[j]) /\ EffectiveKey(vnrFormat[j]) = k}

SingleMode(term) == Has(term, "sourceLanguage") /\ ~Has(term, "sourceLanguages")

MultiMode(term) == Has(term, "sourceLanguages") /\ ~Has(term, "sourceLanguage")

\* C6: a step that merges a well-shaped record whose effective key already
\* has a Merged Term leaves that term, when it held a single sourceLanguage
\* different from the record's, with sourceLanguages = <<old, incoming>> and
\* no sourceLanguage; and, when it held sourceLanguages without the record's,
\* with the record's sourceLanguage appended.
C6_SecondSourceLanguage ==
  [][ ( /\ Merge
        /\ WellShaped(vnrFormat[i])
        /\ Has(vnrFormat[i], "sourceLanguage")
        /\ TermsHas(tempFormat.terms, EffectiveKey(vnrFormat[i])) )
      => LET k   == EffectiveKey(vnrFormat[i])
             sl  == vnrFormat[i]["sourceLanguage"]
             old == TermsGet(tempFormat.terms, k)
             new == TermsGet(tempFormat'.terms, k)
         IN  /\ (SingleMode(old) /\ old["sourceLanguage"] # sl)
                  => /\ MultiMode(new)
                     /\ new["sourceLanguages"] = <<old["sourceLanguage"], sl>>
             /\ (MultiMode(old) /\ ~includes(old["sourceLanguages"], sl))
                  => /\ MultiMode(new)
                     /\ new["sourceLanguages"] = Append(old["sourceLanguages"], sl)
    ]_vars

\* C9: when the conversion is done, the comment of every Output Term is the
\* comment of the first eligible record of its key that carries one, and the
\* Output Term has no comment exactly when no such record carries one.
C9_FirstCommentWins ==
  pc = "done" =>
    \A n \in 1..Len(yagtFormat.terms) :
      LET o == yagtFormat.terms[n]
          J == {j \in IdxOfKey(o["pattern"]) : Truthy(vnrFormat[j], "comment")}
      IN  IF J = {}
          THEN ~Has(o, "comment")
          ELSE Has(o, "comment") /\ o["comment"] = vnrFormat[Min(J)]["comment"]

\* The source-language representation of every Merged Term after the first n
\* records: exactly one of the two, the single one exactly while one distinct
\* source language has contributed to the key, the sequence without
\* duplicates and with at least two entries.
SourceLanguageModes(terms, n) ==
  \A m \in 1..Len(terms) :
    LET term == terms[m].value
        S == {Get(vnrFormat[j], "sourceLanguage") : j \in ContributorsOf(terms[m].key, n)}
    IN  /\ SingleMode(term) \/ MultiMode(term)
        /\ SingleMode(term) <=> Cardinality(S) = 1
        /\ SingleMode(term) => S = {term["sourceLanguage"]}
        /\ MultiMode(term) =>
             /\ Len(term["sourceLanguages"]) >= 2
             /\ \A a, b \in 1..Len(term["sourceLanguages"]) :
                  term["sourceLanguages"][a] = term["sourceLanguages"][b] => a = b

\* C10: every step of the loop leaves every Merged Term in exactly one of the
\* two source-language representations, as above, and a Merged Term in
\* multi-language mode stays in it.
C10_SourceLanguageModes ==
  [][ (pc = "loop" /\ i' = i + 1)
      => /\ SourceLanguageModes(tempFormat'.terms, i)
         /\ \A m \in 1..Len(tempFormat.terms) :
              MultiMode(tempFormat.terms[m].value)
                => /\ TermsHas(tempFormat'.terms, tempFormat.terms[m].key)
                   /\ MultiMode(TermsGet(tempFormat'.terms, tempFormat.terms[m].key))
    ]_vars

====
